---- MODULE Spec2Model ----
(***************************************************************************)
(* Route composition of the Kremlik city guide (SmartCityGuideTrainer and  *)
(* SmartCityGuidePlanner): candidate ranking, the three-tier budgeted      *)
(* selection of find_optimal_places, the greedy nearest-neighbour tour of  *)
(* optimize_route_sequence and the route plan built from them; and the     *)
(* chat sessions of the Telegram bot (tg_bot.py), handler by handler.      *)
(*                                                                         *)
(* Units.  The code computes in floating point; the model uses exact       *)
(* integers on a fixed grid:                                               *)
(*   - a distance is a number of hectometres (0.1 km);                     *)
(*   - a time in minutes is a number of ticks of half a minute;            *)
(*   - a time in hours is a number of hundredths of an hour, and the       *)
(*     division minutes / 60 rounds to the nearest of them, a tie to the   *)
(*     even one, as a floating-point division rounds its result;           *)
(*   - a similarity is a number of hundredths (0.75 is 75).                *)
(* Coordinates are positions in hectometres along one meridian, so that    *)
(* the geodesic distance of two points is the absolute difference.         *)
(***************************************************************************)
EXTENDS Integers, Sequences, FiniteSets, TLC

VARIABLES
    places,             \* self.places: the catalog
    place_embeddings,   \* self.place_embeddings
    pc,                 \* "idle", "ready" (input taken), "done" (request served)
    user_interests,     \* the request: query,
    min_time,           \*   window
    max_time,
    start_coords,       \*   and start
    selection,          \* what find_optimal_places built and returned
    plan,               \* what generate_route_plan built, and how it ended
    repeated,           \* the request repeats the one served before it
    first_places,       \* the combination and the tour of the request before,
    first_tour,         \*   when repeated
    walk_distance,      \* calculate_walking_time alone: its input,
    trainer_walk,       \*   the trainer's result
    planner_walk,       \*   and the planner's (-1: not computed)
    dwell_similarity,   \* calculate_time_for_place alone: its input
    dwell_time,         \*   and its result (-1: not computed)
    total_places,       \* calculate_total_route_time alone: its inputs
    total_start,
    total_result,       \*   and its result (<<>>: not computed)
    sequence_result,    \* optimize_route_sequence alone, on the same inputs
    session,            \* the chat: the UserSession of one chat_id,
    next_step_handlers, \*   handle_user_keypoint is registered as next step,
    sent,               \*   the message the bot sent last
    route_generation    \*   and how generate_route_state was entered last

\* ------------------------------------------------------------------ bounds

\* Longest catalog (self.places) the model loads.
MaxPlaces == 5

\* Largest distance, in hectometres, given to calculate_walking_time alone.
MaxDistance == 520

\* Longest list of places given to calculate_total_route_time alone.
MaxRouteLen == 3

\* ------------------------------------------------------------------- units

HmPerKm == 10
MinutesPerHour == 60
TicksPerMinute == 2

TicksPerHour == MinutesPerHour * TicksPerMinute

\* What an hour counts in the unit hours are held in.
HundredthsPerHour == 100

\* n hours and h hundredths of an hour, as the model holds them.
Hours(n) == n * HundredthsPerHour

HundredthsOfHour(h) == (h * HundredthsPerHour) \div 100

Max2(a, b) == IF a >= b THEN a ELSE b

Min2(a, b) == IF a <= b THEN a ELSE b

Abs(x) == IF x < 0 THEN -x ELSE x

\* a / b for a >= 0 and b > 0, rounded to the nearest integer and, half way
\* between two, to the even one.
RoundDiv(a, b) ==
    LET q == a \div b
        r == a % b
    IN  IF 2 * r > b \/ (2 * r = b /\ q % 2 = 1) THEN q + 1 ELSE q

\* ------------------------------------------------- external capabilities

\* geopy's geodesic(a, b).km for two points of one meridian.
geodesic(a, b) == Abs(a - b)

Topics == {"museum", "park", "cafe"}

Queries == {"art", "nature"}

\* util.cos_sim of the query's embedding and a place's precomputed
\* embedding: a fixed lookup, in hundredths. A text about none of the
\* topics is equally far from every place.
cos_sim(query, embedding) ==
    CASE query = "art" /\ embedding = "museum" -> 75
      [] query = "art" /\ embedding = "park" -> 50
      [] query = "art" /\ embedding = "cafe" -> 10
      [] query = "nature" /\ embedding = "museum" -> 10
      [] query = "nature" /\ embedding = "park" -> 75
      [] query = "nature" /\ embedding = "cafe" -> 50
      [] OTHER -> 20

\* ------------------------------------------------------- WalkingTimeModel

walking_speed == 4

\* Faulty variant of calculate_walking_time: the upper limit of 120 minutes
\* is lost.
calculate_walking_time_no_ceiling(distance_km) ==
    LET walking_time_minutes ==
            (distance_km * MinutesPerHour * TicksPerMinute)
                \div (walking_speed * HmPerKm)
    IN  Max2(5 * TicksPerMinute, walking_time_minutes)

\* SmartCityGuideTrainer.calculate_walking_time: minutes (in ticks) to walk
\* distance_km (in hectometres) at walking_speed, kept within 5..120 minutes.
calculate_walking_time(distance_km) ==
    LET walking_time_minutes ==
            (distance_km * MinutesPerHour * TicksPerMinute)
                \div (walking_speed * HmPerKm)
    IN  Max2(5 * TicksPerMinute, Min2(120 * TicksPerMinute, walking_time_minutes))

planner_walking_speed == 4

\* SmartCityGuidePlanner.calculate_walking_time: the planner's own copy.
planner_calculate_walking_time(distance_km) ==
    LET walking_time_minutes ==
            (distance_km * MinutesPerHour * TicksPerMinute)
                \div (planner_walking_speed * HmPerKm)
    IN  Max2(5 * TicksPerMinute, Min2(120 * TicksPerMinute, walking_time_minutes))

\* ------------------------------------------------------------ dwell time

\* Faulty variant of calculate_time_for_place: the tier of 0.25 hours is
\* missing.
calculate_time_for_place_three_tiers(place, similarity_score) ==
    IF similarity_score > 70 THEN HundredthsOfHour(40)
    ELSE IF similarity_score > 50 THEN HundredthsOfHour(30)
    ELSE HundredthsOfHour(20)

\* Faulty variant of calculate_time_for_place: the tier boundaries are
\* inclusive.
calculate_time_for_place_inclusive(place, similarity_score) ==
    IF similarity_score >= 70 THEN HundredthsOfHour(40)
    ELSE IF similarity_score >= 50 THEN HundredthsOfHour(30)
    ELSE IF similarity_score >= 30 THEN HundredthsOfHour(25)
    ELSE HundredthsOfHour(20)

\* SmartCityGuideTrainer.calculate_time_for_place: hours (in hundredths) to spend
\* at a place, by its similarity (in hundredths).
calculate_time_for_place(place, similarity_score) ==
    IF similarity_score > 70 THEN HundredthsOfHour(40)
    ELSE IF similarity_score > 50 THEN HundredthsOfHour(30)
    ELSE IF similarity_score > 30 THEN HundredthsOfHour(25)
    ELSE HundredthsOfHour(20)

\* --------------------------------------------------------------- catalog

\* What load_places_from_excel can yield for one row, id apart: coordinates
\* and the text (name and description) the embedding is computed from.
PlaceKinds ==
    { [coords |-> -17, description |-> "museum"],
      [coords |-> 0, description |-> "museum"],
      [coords |-> 14, description |-> "park"],
      [coords |-> -7, description |-> "cafe"] }

\* The places load_places_from_excel returns for rows of the kinds `rows`:
\* one record per row, in row order, ids distinct.
load_places_from_excel(rows) ==
    [i \in 1..Len(rows) |->
        [id |-> i, coords |-> rows[i].coords, description |-> rows[i].description]]

\* precompute_place_embeddings: one embedding per place, aligned with places.
precompute_place_embeddings(places_) ==
    [i \in 1..Len(places_) |-> places_[i].description]

StartPoints == {0, 90}

\* The (min_time, max_time) windows requested.
Windows ==
    { <<Hours(1), Hours(2)>>,
      <<HundredthsOfHour(25), HundredthsOfHour(50)>>,
      <<Hours(2), Hours(1)>> }

\* minutes / 60: a time in minutes (ticks), in hours (hundredths).
MinutesToHours(minutes) == RoundDiv(minutes * HundredthsPerHour, TicksPerHour)

\* ------------------------------------------------------- Python list helpers

\* `x in xs` for a list: equality by value with some element.
InList(x, xs) == \E k \in 1..Len(xs) : xs[k] = x

\* xs[:n]
Take(xs, n) == SubSeq(xs, 1, Min2(n, Len(xs)))

RECURSIVE SumTimeRequired(_, _)
\* sum(place['time_required'] for place in places[:n])
SumTimeRequired(places_, n) ==
    IF n = 0 THEN 0
    ELSE SumTimeRequired(places_, n - 1) + places_[n].time_required

\* ------------------------------------------------------ RouteTimeAccountant

RECURSIVE WalkingBetweenFromSecond(_, _)
\* Faulty variant of WalkingBetween: the loop starts one place late, so the
\* leg from the first place to the second is left out.
WalkingBetweenFromSecond(places_, n) ==
    IF n <= 2 THEN 0
    ELSE WalkingBetweenFromSecond(places_, n - 1)
            + calculate_walking_time(geodesic(places_[n - 1].coords, places_[n].coords))

RECURSIVE WalkingBetween(_, _)
\* The loop of calculate_total_route_time over places[1..n]: the walking time
\* of every leg between consecutive places, in list order.
WalkingBetween(places_, n) ==
    IF n <= 1 THEN 0
    ELSE WalkingBetween(places_, n - 1)
            + calculate_walking_time(geodesic(places_[n - 1].coords, places_[n].coords))

\* SmartCityGuideTrainer.calculate_total_route_time, for places that all
\* carry time_required: (total_route_time, total_walking_time_min,
\* total_walking_hours).
calculate_total_route_time(places_, start_coords_) ==
    IF places_ = <<>> THEN <<0, 0, 0>>
    ELSE LET total_visit_time == SumTimeRequired(places_, Len(places_))
             first_dist == geodesic(start_coords_, places_[1].coords)
             total_walking_time_min ==
                 calculate_walking_time(first_dist) + WalkingBetween(places_, Len(places_))
             total_walking_hours == MinutesToHours(total_walking_time_min)
             total_route_time == total_visit_time + total_walking_hours
         IN  <<total_route_time, total_walking_time_min, total_walking_hours>>

\* ---------------------------------------------------------- CandidateRanker

\* The record find_optimal_places builds for catalog place i.
ScoredPlace(place, score, start_coords_) ==
    LET dist_to_start == geodesic(start_coords_, place.coords)
    IN  [id |-> place.id, coords |-> place.coords, description |-> place.description,
         similarity_score |-> score,
         distance_to_start |-> dist_to_start,
         walk_time_to_place |-> MinutesToHours(calculate_walking_time(dist_to_start)),
         time_required |-> calculate_time_for_place(place, score)]

\* Faulty variant of KeyLess: equal keys count as smaller, which makes the
\* sort put a place before the places of equal key already sorted.
KeyLessOrEqual(a, b) ==
    \/ a.similarity_score > b.similarity_score
    \/ /\ a.similarity_score = b.similarity_score
       /\ a.distance_to_start <= b.distance_to_start

\* Faulty variant of places_after_scoring: the scores are written into the
\* catalog's own records (place.update(...) instead of {**place, ...}).
places_scored_in_place(places_, start_coords_, scores) ==
    [i \in 1..Len(places_) |-> ScoredPlace(places_[i], scores[i], start_coords_)]

\* self.places after find_optimal_places has scored its places: every scored
\* record is a new dict, {**place, ...}, and the catalog is left as it was.
places_after_scoring(places_, start_coords_, scores) == places_

\* The sort key (-similarity_score, distance_to_start) of a is smaller than b's.
KeyLess(a, b) ==
    \/ a.similarity_score > b.similarity_score
    \/ /\ a.similarity_score = b.similarity_score
       /\ a.distance_to_start < b.distance_to_start

RECURSIVE InsertSorted(_, _, _)
\* x put into the sorted list xs from position i on: before the first
\* element whose key is larger, so behind every element of equal key.
InsertSorted(x, xs, i) ==
    IF i > Len(xs) THEN Append(xs, x)
    ELSE IF KeyLess(x, xs[i])
         THEN SubSeq(xs, 1, i - 1) \o <<x>> \o SubSeq(xs, i, Len(xs))
         ELSE InsertSorted(x, xs, i + 1)

RECURSIVE SortByKey(_, _)
\* list.sort(key=...) of xs[1..n]: stable.
SortByKey(xs, n) ==
    IF n = 0 THEN <<>>
    ELSE InsertSorted(xs[n], SortByKey(xs, n - 1), 1)

\* places_with_scores of find_optimal_places, sorted.
RankPlaces(places_, embeddings, query, start_coords_) ==
    LET scored == [i \in 1..Len(places_) |->
                      ScoredPlace(places_[i], cos_sim(query, embeddings[i]), start_coords_)]
    IN  SortByKey(scored, Len(scored))

\* --------------------------------------------------------- BudgetedSelector

RECURSIVE AccumulatedTime(_, _)
\* The running total (current_total_time, current_time) after the first n
\* places of combination were accepted in this order: each place adds its
\* visit and the walk to it, converted to hours leg by leg.
AccumulatedTime(combination, n) ==
    IF n = 0 THEN 0
    ELSE AccumulatedTime(combination, n - 1)
            + combination[n].time_required
            + IF n = 1
              THEN combination[1].walk_time_to_place
              ELSE MinutesToHours(calculate_walking_time(
                       geodesic(combination[n - 1].coords, combination[n].coords)))

\* Faulty variant of TierAPlaceTotalTime: the walk is always taken from the
\* start, also when the combination holds places.
TierAPlaceTotalTimeFromStart(place, combination) ==
    place.time_required + place.walk_time_to_place

\* The time one more place adds to a combination: its visit, plus the walk
\* from the start (first place) or from the last place of the combination.
TierAPlaceTotalTime(place, combination) ==
    IF combination = <<>>
    THEN place.time_required + place.walk_time_to_place
    ELSE LET last_place == combination[Len(combination)]
             dist_between == geodesic(last_place.coords, place.coords)
             walk_time_between == MinutesToHours(calculate_walking_time(dist_between))
         IN  place.time_required + walk_time_between

RECURSIVE TierAWalkSkipping(_, _, _, _, _, _)
\* Faulty variant of TierAWalk: the pass for target_count leaves out the
\* first 5 - target_count ranked places.
TierAWalkSkipping(ranked, i, combination, current_total_time, target_count, max_time_) ==
    IF i > Len(ranked) \/ Len(combination) >= target_count
    THEN [combination |-> combination, current_total_time |-> current_total_time]
    ELSE LET place == ranked[i]
             place_total_time == TierAPlaceTotalTime(place, combination)
         IN  IF InList(place, combination) \/ i <= 5 - target_count
             THEN TierAWalkSkipping(ranked, i + 1, combination,
                                    current_total_time, target_count, max_time_)
             ELSE IF current_total_time + place_total_time <= max_time_
             THEN TierAWalkSkipping(ranked, i + 1, Append(combination, place),
                                    current_total_time + place_total_time,
                                    target_count, max_time_)
             ELSE TierAWalkSkipping(ranked, i + 1, combination,
                                    current_total_time, target_count, max_time_)

RECURSIVE TierAWalk(_, _, _, _, _, _)
\* The inner loop of one Tier-A pass, from ranked place i on.
TierAWalk(ranked, i, combination, current_total_time, target_count, max_time_) ==
    IF i > Len(ranked) \/ Len(combination) >= target_count
    THEN [combination |-> combination, current_total_time |-> current_total_time]
    ELSE LET place == ranked[i]
             place_total_time == TierAPlaceTotalTime(place, combination)
         IN  IF InList(place, combination)
             THEN TierAWalk(ranked, i + 1, combination, current_total_time,
                            target_count, max_time_)
             ELSE IF current_total_time + place_total_time <= max_time_
             THEN TierAWalk(ranked, i + 1, Append(combination, place),
                            current_total_time + place_total_time,
                            target_count, max_time_)
             ELSE TierAWalk(ranked, i + 1, combination, current_total_time,
                            target_count, max_time_)

\* Faulty variant of TierAAccepts: the total is tested against max_time
\* only.
TierAAcceptsNoMinimum(combination, total_route_time, min_time_, max_time_) ==
    /\ Len(combination) >= 3
    /\ total_route_time <= max_time_

\* Whether a pass's combination is kept as a candidate result: at least 3
\* places and a recomputed total inside the window.
TierAAccepts(combination, total_route_time, min_time_, max_time_) ==
    /\ Len(combination) >= 3
    /\ min_time_ <= total_route_time
    /\ total_route_time <= max_time_

\* |total_route_time - (min_time + max_time) / 2|, doubled to stay integral.
TimeDiff(total_route_time, min_time_, max_time_) ==
    Abs(2 * total_route_time - (min_time_ + max_time_))

\* One pass of Tier A for target_count: what it built and whether it is a
\* candidate result.
TierAPass(ranked, target_count, min_time_, max_time_, start_coords_) ==
    LET walk == TierAWalk(ranked, 1, <<>>, 0, target_count, max_time_)
        total_route_time ==
            calculate_total_route_time(walk.combination, start_coords_)[1]
    IN  [target_count |-> target_count,
         combination |-> walk.combination,
         current_total_time |-> walk.current_total_time,
         total_route_time |-> total_route_time,
         accepted |-> TierAAccepts(walk.combination, total_route_time,
                                   min_time_, max_time_),
         time_diff |-> TimeDiff(total_route_time, min_time_, max_time_)]

\* for target_count in [5, 4, 3]
TargetCounts == <<5, 4, 3>>

RECURSIVE TierALast(_, _)
\* Faulty variant of TierABest: every candidate result replaces the one kept,
\* whatever its time_diff, so the last candidate wins.
TierALast(passes, n) ==
    IF n = 0 THEN [best_combination |-> <<>>, best_time_diff |-> -1]
    ELSE IF passes[n].accepted
         THEN [best_combination |-> passes[n].combination,
               best_time_diff |-> passes[n].time_diff]
         ELSE TierALast(passes, n - 1)

RECURSIVE TierABest(_, _)
\* best_combination after the first n passes: a pass replaces it only when
\* its time_diff is strictly smaller.  best_time_diff = -1 stands for inf.
TierABest(passes, n) ==
    IF n = 0 THEN [best_combination |-> <<>>, best_time_diff |-> -1]
    ELSE LET before == TierABest(passes, n - 1)
             pass == passes[n]
         IN  IF /\ pass.accepted
                /\ \/ before.best_time_diff = -1
                   \/ pass.time_diff < before.best_time_diff
             THEN [best_combination |-> pass.combination,
                   best_time_diff |-> pass.time_diff]
             ELSE before

\* Faulty variant of TierBPlaceTotalTime: the walk to the place is left out.
TierBPlaceTotalTimeNoWalk(place, best_combination) == place.time_required

\* The time one more place adds in Tier B.
TierBPlaceTotalTime(place, best_combination) ==
    IF best_combination = <<>>
    THEN place.time_required + place.walk_time_to_place
    ELSE LET last_place == best_combination[Len(best_combination)]
             dist_between == geodesic(last_place.coords, place.coords)
             walk_time_between == MinutesToHours(calculate_walking_time(dist_between))
         IN  place.time_required + walk_time_between

RECURSIVE TierBWalk(_, _, _, _, _)
\* The loop of Tier B, from ranked place i on: as many places as fit
\* max_time, 5 at most.
TierBWalk(ranked, i, best_combination, current_time, max_time_) ==
    IF i > Len(ranked) \/ Len(best_combination) >= 5
    THEN best_combination
    ELSE LET place == ranked[i]
             place_total_time == TierBPlaceTotalTime(place, best_combination)
         IN  IF InList(place, best_combination)
             THEN TierBWalk(ranked, i + 1, best_combination, current_time, max_time_)
             ELSE IF current_time + place_total_time <= max_time_
             THEN TierBWalk(ranked, i + 1, Append(best_combination, place),
                            current_time + place_total_time, max_time_)
             ELSE TierBWalk(ranked, i + 1, best_combination, current_time, max_time_)

\* Faulty variant of TierCWalk: the top-ranked places are appended without
\* looking whether best_combination holds them already.
TierCWalkNoMembership(ranked, i, best_combination) ==
    best_combination \o SubSeq(ranked, i, i + 2 - Len(best_combination))

\* Faulty variant of TierCWalk: the places added are put in front of
\* best_combination instead of behind it.
TierCWalkInFront(ranked, i, best_combination) ==
    LET unused == SelectSeq(ranked, LAMBDA p : ~InList(p, best_combination))
    IN  SubSeq(unused, i, i + 2 - Len(best_combination)) \o best_combination

RECURSIVE TierCWalk(_, _, _)
\* The loop of Tier C, from ranked place i on: top-ranked places not yet in
\* best_combination are appended until it holds 3.
TierCWalk(ranked, i, best_combination) ==
    IF i > Len(ranked) \/ Len(best_combination) >= 3
    THEN best_combination
    ELSE IF ~InList(ranked[i], best_combination)
         THEN TierCWalk(ranked, i + 1, Append(best_combination, ranked[i]))
         ELSE TierCWalk(ranked, i + 1, best_combination)

\* Faulty variant of TierC: the result is brought to exactly 3 places, longer
\* combinations cut.
TierCExactlyThree(ranked, best_combination) ==
    IF Len(ranked) >= 3
    THEN Take(TierCWalk(ranked, 1, best_combination), 3)
    ELSE best_combination

\* Faulty variant of TierC: Tier C never runs.
TierCSkipped(ranked, best_combination) == best_combination

\* Faulty variant of TierC: Tier C runs for catalogs of fewer than 3 places
\* too.
TierCAnyCatalog(ranked, best_combination) ==
    IF Len(best_combination) < 3
    THEN TierCWalk(ranked, 1, best_combination)
    ELSE best_combination

\* Tier C as find_optimal_places applies it.
TierC(ranked, best_combination) ==
    IF Len(best_combination) < 3 /\ Len(ranked) >= 3
    THEN TierCWalk(ranked, 1, best_combination)
    ELSE best_combination

\* Faulty variant of ScoringCalls: the query is encoded and compared before
\* the catalog is looked at.
ScoringCallsBeforeGuard(places_) == 2 + Len(places_)

\* The calls find_optimal_places makes to the outside while scoring: none
\* when the catalog is empty, else model.encode and util.cos_sim once each
\* and geodesic once for every place.
ScoringCalls(places_) ==
    IF places_ = <<>> THEN 0 ELSE 2 + Len(places_)

\* SmartCityGuideTrainer.find_optimal_places, with what each tier built.
find_optimal_places(places_, embeddings, user_interests_, min_time_, max_time_, start_coords_) ==
    IF places_ = <<>>
    THEN [places_with_scores |-> <<>>, passes |-> <<>>, tier_a |-> <<>>,
          tier_b_ran |-> FALSE, tier_b |-> <<>>, best_combination |-> <<>>,
          scoring_calls |-> ScoringCalls(places_)]
    ELSE LET ranked == RankPlaces(places_, embeddings, user_interests_, start_coords_)
             passes == [k \in 1..Len(TargetCounts) |->
                           TierAPass(ranked, TargetCounts[k], min_time_, max_time_,
                                     start_coords_)]
             tier_a == TierABest(passes, Len(passes)).best_combination
             tier_b_ran == (tier_a = <<>>)
             tier_b == IF tier_b_ran THEN TierBWalk(ranked, 1, <<>>, 0, max_time_)
                       ELSE <<>>
             after_b == IF tier_b_ran THEN tier_b ELSE tier_a
         IN  [places_with_scores |-> ranked, passes |-> passes, tier_a |-> tier_a,
              tier_b_ran |-> tier_b_ran, tier_b |-> tier_b,
              best_combination |-> TierC(ranked, after_b),
              scoring_calls |-> ScoringCalls(places_)]

\* ----------------------------------------------------------- RouteSequencer

\* all_points[node]: node 0 is the start, node k the k-th place.
PointOfNode(places_, start_coords_, node) ==
    IF node = 0 THEN start_coords_ ELSE places_[node].coords

\* Faulty variant of EdgeWeight: every distance is measured from the start.
EdgeWeightFromStart(places_, start_coords_, a, b) ==
    geodesic(start_coords_, PointOfNode(places_, start_coords_, b))

\* graph[a][b]['weight']
EdgeWeight(places_, start_coords_, a, b) ==
    geodesic(PointOfNode(places_, start_coords_, a),
             PointOfNode(places_, start_coords_, b))

\* Faulty variant of NextNode: among the nodes of least weight the choice
\* changes from one run to the next (an iteration order that is not fixed).
NextNodeUnstable(places_, start_coords_, unvisited, current) ==
    CHOOSE n \in unvisited :
        \A m \in unvisited :
            \/ EdgeWeight(places_, start_coords_, current, n)
                  < EdgeWeight(places_, start_coords_, current, m)
            \/ /\ EdgeWeight(places_, start_coords_, current, n)
                     = EdgeWeight(places_, start_coords_, current, m)
               /\ IF repeated THEN n >= m ELSE n <= m

\* min(unvisited, key=weight from current): the first node of least weight
\* in the set's iteration order, which for these small integers is
\* ascending.
NextNode(places_, start_coords_, unvisited, current) ==
    CHOOSE n \in unvisited :
        \A m \in unvisited :
            \/ EdgeWeight(places_, start_coords_, current, n)
                  < EdgeWeight(places_, start_coords_, current, m)
            \/ /\ EdgeWeight(places_, start_coords_, current, n)
                     = EdgeWeight(places_, start_coords_, current, m)
               /\ n <= m

RECURSIVE greedy_tsp(_, _, _, _, _)
\* greedy_tsp's loop: the tour from `current` over the unvisited nodes.
greedy_tsp(places_, start_coords_, unvisited, tour, current) ==
    IF unvisited = {} THEN tour
    ELSE LET next_node == NextNode(places_, start_coords_, unvisited, current)
         IN  greedy_tsp(places_, start_coords_, unvisited \ {next_node},
                        Append(tour, next_node), next_node)

\* Faulty variant of optimize_route_sequence: the list is built from the
\* whole tour, start node included, and places[0 - 1] is the last place.
optimize_route_sequence_whole_tour(places_, start_coords_) ==
    IF Len(places_) <= 1 THEN places_
    ELSE LET tour == greedy_tsp(places_, start_coords_, 1..Len(places_), <<0>>, 0)
         IN  [k \in 1..Len(tour) |->
                 IF tour[k] = 0 THEN places_[Len(places_)]
                 ELSE places_[tour[k]]]

\* SmartCityGuideTrainer.optimize_route_sequence
optimize_route_sequence(places_, start_coords_) ==
    IF Len(places_) <= 1 THEN places_
    ELSE LET tour == greedy_tsp(places_, start_coords_, 1..Len(places_), <<0>>, 0)
         IN  [k \in 1..(Len(tour) - 1) |-> places_[tour[k + 1]]]

\* ------------------------------------------------------------- route plan

\* place['time_required'] raises KeyError for some place of the list.
RaisesKeyError(places_) ==
    \E k \in 1..Len(places_) : "time_required" \notin DOMAIN places_[k]

\* The places generate_route_plan works on: the catalog's first 5 when it was
\* given fewer than 3, and never more than 5.
RoutePlaces(given, catalog) ==
    LET chosen == IF Len(given) < 3 THEN Take(catalog, 5) ELSE given
    IN  Take(chosen, 5)

\* Faulty variant of generate_route_plan: the totals are those of the places
\* in the order given, not in tour order.
generate_route_plan_given_order(given, catalog, start_coords_) ==
    IF Len(given) < 3 /\ catalog = <<>>
    THEN [status |-> "insufficient_data", route_places |-> <<>>,
          optimized_places |-> <<>>, totals |-> <<0, 0, 0>>]
    ELSE LET route_places_ == RoutePlaces(given, catalog)
             optimized == optimize_route_sequence(route_places_, start_coords_)
         IN  IF RaisesKeyError(optimized)
             THEN [status |-> "KeyError", route_places |-> route_places_,
                   optimized_places |-> optimized, totals |-> <<0, 0, 0>>]
             ELSE [status |-> "itinerary", route_places |-> route_places_,
                   optimized_places |-> optimized,
                   totals |-> calculate_total_route_time(route_places_, start_coords_)]

\* SmartCityGuideTrainer.generate_route_plan, up to the totals it reports.
generate_route_plan(given, catalog, start_coords_) ==
    IF Len(given) < 3 /\ catalog = <<>>
    THEN [status |-> "insufficient_data", route_places |-> <<>>,
          optimized_places |-> <<>>, totals |-> <<0, 0, 0>>]
    ELSE LET route_places_ == RoutePlaces(given, catalog)
             optimized == optimize_route_sequence(route_places_, start_coords_)
         IN  IF RaisesKeyError(optimized)
             THEN [status |-> "KeyError", route_places |-> route_places_,
                   optimized_places |-> optimized, totals |-> <<0, 0, 0>>]
             ELSE [status |-> "itinerary", route_places |-> route_places_,
                   optimized_places |-> optimized,
                   totals |-> calculate_total_route_time(optimized, start_coords_)]

\* What the caller (generate_route_state, create_walk_plan) does with the
\* places found: no places, no plan.
ComposeOutcome(relevant, catalog, start_coords_) ==
    IF relevant = <<>>
    THEN [status |-> "not_found", route_places |-> <<>>,
          optimized_places |-> <<>>, totals |-> <<0, 0, 0>>]
    ELSE generate_route_plan(relevant, catalog, start_coords_)

\* ------------------------------------------------------------------ state

vars ==
    <<places, place_embeddings, pc, user_interests, min_time, max_time,
      start_coords, selection, plan, repeated, first_places, first_tour,
      walk_distance, trainer_walk, planner_walk, dwell_similarity, dwell_time,
      total_places, total_start, total_result, sequence_result,
      session, next_step_handlers, sent, route_generation>>

routeVars ==
    <<places, place_embeddings, pc, user_interests, min_time, max_time,
      start_coords, selection, plan, repeated, first_places, first_tour>>

walkVars == <<walk_distance, trainer_walk, planner_walk>>

dwellVars == <<dwell_similarity, dwell_time>>

totalVars == <<total_places, total_start, total_result, sequence_result>>

chatVars == <<session, next_step_handlers, sent, route_generation>>

\* optimize_route_sequence not called on its own.
NotSequenced == [called |-> FALSE, tour |-> <<>>, places |-> <<>>]

\* calculate_total_route_time and optimize_route_sequence not called on
\* their own.
TotalAtRest ==
    /\ total_places = <<>>
    /\ total_start = 0
    /\ total_result = <<>>
    /\ sequence_result = NotSequenced

\* Python's None, and a value that is not None.
None == <<>>

Some(x) == <<x>>

\* UserSession.__init__
UserSession ==
    [current_state |-> 0, user_interests |-> "",
     min_time |-> Hours(2), max_time |-> Hours(4),
     start_coords |-> None, start_location |-> "", trained_model |-> None]

\* generate_route_state not entered yet.
NotGenerated ==
    [entered |-> FALSE, start_coords |-> None, trained_model |-> None,
     outcome |-> "none"]

\* No chat: no session touched, no handler registered, nothing sent.
ChatAtRest ==
    /\ session = UserSession
    /\ next_step_handlers = FALSE
    /\ sent = "nothing"
    /\ route_generation = NotGenerated

\* Nothing selected, nothing planned: before a request is served.
NoSelection ==
    [places_with_scores |-> <<>>, passes |-> <<>>, tier_a |-> <<>>,
     tier_b_ran |-> FALSE, tier_b |-> <<>>, best_combination |-> <<>>,
     scoring_calls |-> 0]

NoPlan ==
    [status |-> "none", route_places |-> <<>>, optimized_places |-> <<>>,
     totals |-> <<0, 0, 0>>]

\* The locals of the request served last.
places_with_scores == selection.places_with_scores
relevant_places == selection.best_combination
optimized_places == plan.optimized_places

\* SmartCityGuideTrainer.__init__: the catalog is loaded and its embeddings
\* are computed.
Init ==
    /\ \E n \in 0..MaxPlaces : \E rows \in [1..n -> PlaceKinds] :
          /\ places = load_places_from_excel(rows)
          /\ place_embeddings = precompute_place_embeddings(load_places_from_excel(rows))
    /\ pc = "idle"
    /\ user_interests = "none"
    /\ min_time = 0
    /\ max_time = 0
    /\ start_coords = 0
    /\ selection = NoSelection
    /\ plan = NoPlan
    /\ repeated = FALSE
    /\ first_places = <<>>
    /\ first_tour = <<>>
    /\ walk_distance = 0
    /\ trainer_walk = -1
    /\ planner_walk = -1
    /\ dwell_similarity = 0
    /\ dwell_time = -1
    /\ TotalAtRest
    /\ ChatAtRest

\* get_user_input (and the chat's input handlers): the interests, the window
\* and the start of the next request are taken.
GetUserInput ==
    /\ pc \in {"idle", "done"}
    /\ \E query \in Queries, window \in Windows, start \in StartPoints :
          /\ user_interests' = query
          /\ min_time' = window[1]
          /\ max_time' = window[2]
          /\ start_coords' = start
    /\ pc' = "ready"
    /\ selection' = NoSelection
    /\ plan' = NoPlan
    /\ repeated' = FALSE
    /\ first_places' = <<>>
    /\ first_tour' = <<>>
    /\ UNCHANGED <<places, place_embeddings>>
    /\ UNCHANGED <<walkVars, dwellVars, totalVars, chatVars>>

\* The same input given once more after a served request; what the first
\* run returned is kept for comparison.
RepeatUserInput ==
    /\ pc = "done"
    /\ ~repeated
    /\ pc' = "ready"
    /\ selection' = NoSelection
    /\ plan' = NoPlan
    /\ repeated' = TRUE
    /\ first_places' = selection.best_combination
    /\ first_tour' = plan.optimized_places
    /\ UNCHANGED <<places, place_embeddings, user_interests, min_time, max_time,
                   start_coords>>
    /\ UNCHANGED <<walkVars, dwellVars, totalVars, chatVars>>

\* One composition request, as create_walk_plan and generate_route_state run
\* it: find_optimal_places, then generate_route_plan on what it found.
ComposeRoute ==
    /\ pc = "ready"
    /\ selection' = find_optimal_places(places, place_embeddings, user_interests,
                                        min_time, max_time, start_coords)
    /\ plan' = ComposeOutcome(selection'.best_combination, places, start_coords)
    /\ places' = places_after_scoring(
                     places, start_coords,
                     [i \in 1..Len(places) |->
                         cos_sim(user_interests, place_embeddings[i])])
    /\ pc' = "done"
    /\ UNCHANGED <<place_embeddings, user_interests, min_time, max_time,
                   start_coords, repeated, first_places, first_tour>>
    /\ UNCHANGED <<walkVars, dwellVars, totalVars, chatVars>>

Next == GetUserInput \/ RepeatUserInput \/ ComposeRoute

Spec == Init /\ [][Next]_vars

\* ------------------------------------------------ properties of a request

C2_TierAClosestToMiddle ==
    pc = "done" =>
        LET passes == selection.passes
            Total(c) == calculate_total_route_time(c, start_coords)[1]
            Candidate(k) ==
                /\ Len(passes[k].combination) >= 3
                /\ min_time <= Total(passes[k].combination)
                /\ Total(passes[k].combination) <= max_time
            Off(c) == Abs(2 * Total(c) - (min_time + max_time))
        IN  (\E k \in 1..Len(passes) : Candidate(k)) =>
                /\ Len(relevant_places) >= 3
                /\ min_time <= Total(relevant_places)
                /\ Total(relevant_places) <= max_time
                /\ \A k \in 1..Len(passes) :
                      Candidate(k) =>
                          Off(relevant_places) <= Off(passes[k].combination)

\* Two candidate results at different distances from the middle of the
\* window, the later pass strictly closer: the combination returned is the
\* later one.
C2_LaterPassCloser ==
    /\ pc = "done"
    /\ \E k, l \in 1..Len(selection.passes) :
          /\ k < l
          /\ selection.passes[k].accepted
          /\ selection.passes[l].accepted
          /\ selection.passes[l].time_diff < selection.passes[k].time_diff
          /\ relevant_places = selection.passes[l].combination
          /\ relevant_places # selection.passes[k].combination

\* C3. When no Tier-A pass yields a combination inside the window and the
\* catalog has at least 3 places, at least 3 places are returned, and exactly
\* 3 when Tier B accepted fewer than 3: Tier B's places followed by the
\* highest-ranked places Tier B left out, whatever time they take.
C3_FallbackLadder ==
    ( /\ pc = "done"
      /\ Len(places) >= 3
      /\ \A k \in 1..Len(selection.passes) : ~selection.passes[k].accepted ) =>
        LET tier_b == selection.tier_b
            unused == SelectSeq(places_with_scores, LAMBDA p : ~InList(p, tier_b))
        IN  /\ selection.tier_b_ran
            /\ Len(relevant_places) >= 3
            /\ Len(tier_b) >= 3 => relevant_places = tier_b
            /\ Len(tier_b) < 3 =>
                  /\ Len(relevant_places) = 3
                  /\ relevant_places = tier_b \o SubSeq(unused, 1, 3 - Len(tier_b))

\* A proper window in which Tier B accepted one place only and Tier C added
\* two more, which take the route beyond max_time.
C3_TierCBeyondBudget ==
    /\ pc = "done"
    /\ min_time < max_time
    /\ selection.tier_b_ran
    /\ Len(selection.tier_b) = 1
    /\ Len(relevant_places) = 3
    /\ calculate_total_route_time(relevant_places, start_coords)[1] > max_time

\* C4, as stated: over a catalog of at least 1 place every request returns
\* a non-empty result, and the caller never reports that no places were
\* found.
C4_AlwaysFound ==
    (pc = "done" /\ Len(places) >= 1) =>
        /\ relevant_places # <<>>
        /\ plan.status # "not_found"

\* C4. Over a catalog of at least 1 place the result is non-empty exactly
\* when the catalog has at least 3 places or some place's visit and walk
\* from the start fit max_time; the caller reports that no places were found
\* exactly when the result is empty.
C4_FoundWhenThreeOrFitting ==
    (pc = "done" /\ Len(places) >= 1) =>
        /\ relevant_places # <<>> <=>
              \/ Len(places) >= 3
              \/ \E k \in 1..Len(places_with_scores) :
                    places_with_scores[k].time_required
                        + places_with_scores[k].walk_time_to_place <= max_time
        /\ plan.status = "not_found" <=> relevant_places = <<>>

\* A catalog of 2 places and a proper window in which neither place fits:
\* nothing is returned and the caller reports that no places were found.
C4_NothingFits ==
    /\ pc = "done"
    /\ Len(places) = 2
    /\ min_time < max_time
    /\ relevant_places = <<>>
    /\ plan.status = "not_found"

\* C5, as stated: over a catalog of 1 or 2 places a request ends with an
\* itinerary over the places it has.
C5_ItineraryFromSmallCatalog ==
    (pc = "done" /\ Len(places) \in {1, 2}) => plan.status = "itinerary"

\* C6. The tour of 2 to 5 places is an ordering of the places given, in
\* which the first place is one nearest to the start and every later place is
\* one nearest to the place before it among those not yet visited.
C6_NearestNeighbourTour ==
    (pc = "done" /\ Len(plan.route_places) >= 2) =>
        LET given == plan.route_places
            tour == optimized_places
            Current(i) == IF i = 1 THEN start_coords ELSE tour[i - 1].coords
        IN  /\ Len(given) <= 5
            /\ Len(tour) = Len(given)
            /\ \A k \in 1..Len(given) : \E i \in 1..Len(tour) : tour[i] = given[k]
            /\ \A i \in 1..Len(tour) : \A j \in i..Len(tour) :
                  geodesic(Current(i), tour[i].coords)
                      <= geodesic(Current(i), tour[j].coords)

\* A tour of at least 3 places that is neither the order given nor the order
\* of the distances from the start: a later place is nearer to the start
\* than an earlier one.
C6_NotByDistanceFromStart ==
    /\ pc = "done"
    /\ Len(optimized_places) >= 3
    /\ optimized_places # plan.route_places
    /\ \E i, j \in 1..Len(optimized_places) :
          /\ 1 < i
          /\ i < j
          /\ geodesic(start_coords, optimized_places[j].coords)
                < geodesic(start_coords, optimized_places[i].coords)

C10_RankingOrder ==
    pc = "done" =>
        LET ranked == places_with_scores
        IN  /\ Len(ranked) = Len(places)
            /\ \A k \in 1..Len(places) : \E i \in 1..Len(ranked) :
                  /\ ranked[i].id = places[k].id
                  /\ ranked[i].coords = places[k].coords
                  /\ ranked[i].similarity_score
                        = cos_sim(user_interests, place_embeddings[k])
                  /\ ranked[i].distance_to_start
                        = geodesic(start_coords, places[k].coords)
            /\ \A i, j \in 1..Len(ranked) :
                  i < j =>
                      \/ ranked[i].similarity_score > ranked[j].similarity_score
                      \/ /\ ranked[i].similarity_score = ranked[j].similarity_score
                         /\ ranked[i].distance_to_start < ranked[j].distance_to_start
                      \/ /\ ranked[i].similarity_score = ranked[j].similarity_score
                         /\ ranked[i].distance_to_start = ranked[j].distance_to_start
                         /\ ranked[i].id < ranked[j].id

\* A ranked list that is not in catalog order and holds two places equal in
\* similarity and in distance.
C10_ReorderedWithEqualKeys ==
    /\ pc = "done"
    /\ \E i \in 1..Len(places_with_scores) : places_with_scores[i].id # i
    /\ \E i, j \in 1..Len(places_with_scores) :
          /\ i < j
          /\ places_with_scores[i].similarity_score
                = places_with_scores[j].similarity_score
          /\ places_with_scores[i].distance_to_start
                = places_with_scores[j].distance_to_start

\* C12. Over an empty catalog find_optimal_places returns nothing and makes
\* no call to the embedding model or to the distance function, and the
\* caller reports a failure: no route is planned.
C12_EmptyCatalog ==
    (pc = "done" /\ places = <<>>) =>
        /\ relevant_places = <<>>
        /\ places_with_scores = <<>>
        /\ selection.scoring_calls = 0
        /\ plan.status = "not_found"
        /\ plan.route_places = <<>>
        /\ optimized_places = <<>>

\* A request served over the empty catalog.
C12_ServedOverNothing ==
    /\ pc = "done"
    /\ places = <<>>
    /\ user_interests \in Queries
    /\ plan.status = "not_found"

\* C13, as stated: the combination returned is always in ranked order, a
\* subsequence of the ranked list, also after Tier C appended places.
C13_AlwaysRankedOrder ==
    pc = "done" =>
        LET Rank(p) == CHOOSE k \in 1..Len(places_with_scores) :
                           places_with_scores[k].id = p.id
        IN  \A i, j \in 1..Len(relevant_places) :
                i < j => Rank(relevant_places[i]) < Rank(relevant_places[j])

\* C13. What Tier A or Tier B built is in ranked order, a subsequence of the
\* ranked list, and is returned as it is when it holds at least 3 places;
\* otherwise it is returned followed by the places Tier C appended, which
\* are in ranked order among themselves but may rank above the places before
\* them.
C13_RankedOrderPerTier ==
    pc = "done" =>
        LET Rank(p) == CHOOSE k \in 1..Len(places_with_scores) :
                           places_with_scores[k].id = p.id
            InOrder(c) == \A i, j \in 1..Len(c) : i < j => Rank(c[i]) < Rank(c[j])
            built == IF selection.tier_b_ran THEN selection.tier_b
                     ELSE selection.tier_a
        IN  /\ InOrder(built)
            /\ Len(built) <= Len(relevant_places)
            /\ SubSeq(relevant_places, 1, Len(built)) = built
            /\ InOrder(SubSeq(relevant_places, Len(built) + 1, Len(relevant_places)))
            /\ Len(built) >= 3 => relevant_places = built

\* Tier B accepted the place ranked second only, and Tier C appended the
\* places ranked first and third behind it.
C13_TopRankedAppendedBehind ==
    /\ pc = "done"
    /\ selection.tier_b_ran
    /\ Len(places_with_scores) >= 3
    /\ selection.tier_b = <<places_with_scores[2]>>
    /\ relevant_places =
          <<places_with_scores[2], places_with_scores[1], places_with_scores[3]>>

\* C14. In every Tier-A pass and in Tier B the ranked places are examined in
\* order, and a place is appended exactly when the places accepted before it
\* are fewer than the target (5 in Tier B) and the running total plus its
\* marginal time is at most max_time; the marginal time is its dwell plus
\* the walk from the start when nothing is accepted yet, else its dwell plus
\* the clamped walk from the place accepted last.
C14_GreedyAcceptance ==
    pc = "done" =>
        LET ranked == places_with_scores
            Rank(p) == CHOOSE k \in 1..Len(ranked) : ranked[k].id = p.id
            Greedy(c, target, running) ==
                LET Before(i) == Cardinality({k \in 1..Len(c) : Rank(c[k]) < i})
                    Running(i) == AccumulatedTime(c, Before(i))
                    Marginal(i) ==
                        ranked[i].time_required
                            + IF Before(i) = 0
                              THEN ranked[i].walk_time_to_place
                              ELSE MinutesToHours(calculate_walking_time(
                                       geodesic(c[Before(i)].coords, ranked[i].coords)))
                IN  /\ Len(c) <= target
                    /\ \A i, j \in 1..Len(c) : i < j => Rank(c[i]) < Rank(c[j])
                    /\ running = AccumulatedTime(c, Len(c))
                    /\ \A i \in 1..Len(ranked) :
                          InList(ranked[i], c) <=>
                              /\ Before(i) < target
                              /\ Running(i) + Marginal(i) <= max_time
        IN  /\ \A k \in 1..Len(selection.passes) :
                  /\ selection.passes[k].target_count = TargetCounts[k]
                  /\ Greedy(selection.passes[k].combination, TargetCounts[k],
                            selection.passes[k].current_total_time)
            /\ selection.tier_b_ran =>
                  Greedy(selection.tier_b, 5,
                         AccumulatedTime(selection.tier_b, Len(selection.tier_b)))

\* A pass in which a place was rejected and the place ranked right behind it
\* accepted, its walk taken from the place accepted last: from the rejected
\* place the walk would have taken a different time.
C14_SkippedThenAccepted ==
    /\ pc = "done"
    /\ min_time < max_time
    /\ \E k \in 1..Len(selection.passes) :
          LET c == selection.passes[k].combination
          IN  \E a \in 1..(Len(c) - 1) : \E i \in 1..(Len(places_with_scores) - 1) :
                  /\ ~InList(places_with_scores[i], c)
                  /\ c[a + 1] = places_with_scores[i + 1]
                  /\ calculate_walking_time(
                         geodesic(c[a].coords, c[a + 1].coords))
                       # calculate_walking_time(
                             geodesic(places_with_scores[i].coords, c[a + 1].coords))

\* C15. Tier B runs exactly when no Tier-A pass produced a candidate result,
\* and Tier C changes only a result of fewer than 3 places: whenever Tier A
\* produced a candidate result, what is returned is the combination of one
\* of its candidate passes, as that pass built it.
C15_TierOrdering ==
    pc = "done" =>
        LET candidates == {k \in 1..Len(selection.passes) :
                              selection.passes[k].accepted}
            built == IF selection.tier_b_ran THEN selection.tier_b
                     ELSE selection.tier_a
        IN  /\ selection.tier_b_ran <=> (places # <<>> /\ candidates = {})
            /\ ~selection.tier_b_ran => selection.tier_b = <<>>
            /\ candidates # {} =>
                  /\ relevant_places = selection.tier_a
                  /\ \E k \in candidates :
                        relevant_places = selection.passes[k].combination
            /\ Len(built) >= 3 => relevant_places = built

\* Tier A produced a candidate result of 5 places, which is what is returned.
C15_FiveFromTierA ==
    /\ pc = "done"
    /\ ~selection.tier_b_ran
    /\ Len(selection.passes) >= 1
    /\ selection.passes[1].accepted
    /\ Len(relevant_places) = 5
    /\ relevant_places = selection.passes[1].combination

C18_TourTotalReported ==
    (pc = "done" /\ \E k \in 1..Len(selection.passes) : selection.passes[k].accepted) =>
        /\ plan.status = "itinerary"
        /\ plan.route_places = relevant_places
        /\ Len(optimized_places) = Len(relevant_places)
        /\ \A k \in 1..Len(relevant_places) : InList(relevant_places[k], optimized_places)
        /\ plan.totals = calculate_total_route_time(optimized_places, start_coords)

\* A combination accepted by Tier A with a total inside the window whose
\* tour has another total, above max_time, which is the total reported.
C18_TourLeavesWindow ==
    /\ pc = "done"
    /\ \E k \in 1..Len(selection.passes) : selection.passes[k].accepted
    /\ min_time <= calculate_total_route_time(relevant_places, start_coords)[1]
    /\ calculate_total_route_time(relevant_places, start_coords)[1] <= max_time
    /\ optimized_places # relevant_places
    /\ plan.status = "itinerary"
    /\ plan.totals[1] # calculate_total_route_time(relevant_places, start_coords)[1]
    /\ plan.totals[1] > max_time

\* C19. With min_time above max_time no Tier-A pass yields a candidate
\* result; the request is still served, from Tier B, whose places stay
\* within max_time, followed by Tier C's places if Tier B built fewer than 3.
C19_InvertedWindow ==
    (pc = "done" /\ min_time > max_time /\ places # <<>>) =>
        /\ \A k \in 1..Len(selection.passes) : ~selection.passes[k].accepted
        /\ selection.tier_a = <<>>
        /\ selection.tier_b_ran
        /\ AccumulatedTime(selection.tier_b, Len(selection.tier_b)) <= max_time
        /\ Len(selection.tier_b) <= Len(relevant_places)
        /\ SubSeq(relevant_places, 1, Len(selection.tier_b)) = selection.tier_b
        /\ Len(selection.tier_b) >= 3 => relevant_places = selection.tier_b
        /\ Len(places) >= 3 => Len(relevant_places) >= 3

\* A request with min_time above max_time served from Tier B alone, with 3
\* places or more, all of which Tier A had gathered too.
C19_InvertedServedByTierB ==
    /\ pc = "done"
    /\ min_time > max_time
    /\ selection.tier_b_ran
    /\ Len(selection.tier_b) >= 3
    /\ relevant_places = selection.tier_b
    /\ selection.passes[1].combination = selection.tier_b

C21_NestedPasses ==
    Len(selection.passes) = Len(TargetCounts) =>
        LET passes == selection.passes
            five == passes[1].combination
        IN  /\ \A k \in 2..Len(TargetCounts) :
                   passes[k].combination = Take(five, TargetCounts[k])
            /\ \A j, k \in 1..Len(TargetCounts) :
                   Len(passes[j].combination) < Len(passes[k].combination) =>
                       /\ passes[j].current_total_time
                              < passes[k].current_total_time
                       /\ passes[j].total_route_time
                              < passes[k].total_route_time

\* A request whose three passes built accumulators of 5, 4 and 3 places.
C21_ThreeDistinctPrefixes ==
    /\ pc = "done"
    /\ Len(selection.passes) = Len(TargetCounts)
    /\ Len(selection.passes[1].combination) = 5
    /\ Len(selection.passes[2].combination) = 4
    /\ Len(selection.passes[3].combination) = 3

\* C22. At the end of every Tier-A pass the running total current_total_time
\* equals the total calculate_total_route_time recomputes for the
\* accumulator; so the recomputed total is at most max_time, and an
\* accumulator of 3 places or more that is not a candidate result has a
\* total below min_time.
C22_RunningEqualsRecomputed ==
    pc = "done" =>
        \A k \in 1..Len(selection.passes) :
            LET pass == selection.passes[k]
            IN  /\ pass.current_total_time = pass.total_route_time
                /\ pass.total_route_time <= max_time
                /\ (Len(pass.combination) >= 3 /\ ~pass.accepted) =>
                       pass.total_route_time < min_time

\* C23. Whenever Tier B runs it builds the accumulator of the Tier-A pass
\* for 5 places, the same places in the same order; so when it returns 3
\* places or more and min_time <= max_time, their time is below min_time,
\* be it the time accumulated or the total recomputed.
C23_TierBRepeatsFivePass ==
    (pc = "done" /\ selection.tier_b_ran) =>
        LET tier_b == selection.tier_b
        IN  /\ tier_b = selection.passes[1].combination
            /\ (Len(tier_b) >= 3 /\ min_time <= max_time) =>
                   \/ AccumulatedTime(tier_b, Len(tier_b)) < min_time
                   \/ calculate_total_route_time(tier_b, start_coords)[1] < min_time

\* ------------------------------------------- the walking time model alone

\* No catalog, no request: the route composition at rest.
RouteAtRest ==
    /\ places = <<>>
    /\ place_embeddings = <<>>
    /\ pc = "idle"
    /\ user_interests = "none"
    /\ min_time = 0
    /\ max_time = 0
    /\ start_coords = 0
    /\ selection = NoSelection
    /\ plan = NoPlan
    /\ repeated = FALSE
    /\ first_places = <<>>
    /\ first_tour = <<>>

InitWalk ==
    /\ RouteAtRest
    /\ walk_distance \in 0..MaxDistance
    /\ trainer_walk = -1
    /\ planner_walk = -1
    /\ dwell_similarity = 0
    /\ dwell_time = -1
    /\ TotalAtRest
    /\ ChatAtRest

\* SmartCityGuideTrainer.calculate_walking_time on the distance given.
TrainerWalkingTime ==
    /\ trainer_walk = -1
    /\ trainer_walk' = calculate_walking_time(walk_distance)
    /\ UNCHANGED <<routeVars, dwellVars, totalVars, chatVars, walk_distance,
                   planner_walk>>

\* SmartCityGuidePlanner.calculate_walking_time on the distance given.
PlannerWalkingTime ==
    /\ planner_walk = -1
    /\ planner_walk' = planner_calculate_walking_time(walk_distance)
    /\ UNCHANGED <<routeVars, dwellVars, totalVars, chatVars, walk_distance,
                   trainer_walk>>

NextWalk == TrainerWalkingTime \/ PlannerWalkingTime

SpecWalk == InitWalk /\ [][NextWalk]_vars

\* C7. For every distance d the walking time is d / 4 km/h * 60 minutes kept
\* within 5..120 minutes: it lies between 5 and 120 minutes, no shorter
\* distance takes longer, 0.1 km takes 5 minutes, 4 km takes 60 and 50 km
\* takes 120; the planner's copy gives the same time as the trainer's.
C7_WalkingTimeClamp ==
    (trainer_walk # -1 /\ planner_walk # -1) =>
        LET \* d / 4 * 60 minutes, in ticks, times 4 * HmPerKm
            scaled == walk_distance * 60 * TicksPerMinute
            floor_ == 5 * TicksPerMinute
            ceiling == 120 * TicksPerMinute
        IN  /\ scaled < floor_ * 4 * HmPerKm => trainer_walk = floor_
            /\ scaled > ceiling * 4 * HmPerKm => trainer_walk = ceiling
            /\ (floor_ * 4 * HmPerKm <= scaled /\ scaled <= ceiling * 4 * HmPerKm) =>
                  trainer_walk * 4 * HmPerKm = scaled
            /\ floor_ <= trainer_walk
            /\ trainer_walk <= ceiling
            /\ \A d \in 0..walk_distance : calculate_walking_time(d) <= trainer_walk
            /\ walk_distance = 1 => trainer_walk = 5 * TicksPerMinute
            /\ walk_distance = 4 * HmPerKm => trainer_walk = 60 * TicksPerMinute
            /\ walk_distance = 50 * HmPerKm => trainer_walk = 120 * TicksPerMinute
            /\ planner_walk = trainer_walk

\* Both copies have computed the time of 50 km, the ceiling of 120 minutes.
C7_FiftyKilometres ==
    /\ walk_distance = 50 * HmPerKm
    /\ trainer_walk = 120 * TicksPerMinute
    /\ planner_walk = 120 * TicksPerMinute

\* --------------------------------------------------- the dwell tiers alone

\* Cosine similarities, in hundredths.
SimilarityScores == -100..100

InitDwell ==
    /\ RouteAtRest
    /\ walk_distance = 0
    /\ trainer_walk = -1
    /\ planner_walk = -1
    /\ dwell_similarity \in SimilarityScores
    /\ dwell_time = -1
    /\ TotalAtRest
    /\ ChatAtRest

\* calculate_time_for_place(place, similarity_score), for any place.
TimeForPlace ==
    /\ dwell_time = -1
    /\ \E kind \in PlaceKinds :
          dwell_time' = calculate_time_for_place(
                            [id |-> 1, coords |-> kind.coords,
                             description |-> kind.description],
                            dwell_similarity)
    /\ UNCHANGED <<routeVars, walkVars, totalVars, chatVars, dwell_similarity>>

NextDwell == TimeForPlace

SpecDwell == InitDwell /\ [][NextDwell]_vars

\* C8, as stated: similarity 0.75 gives 0.4 hours, similarity exactly 0.5
\* gives 0.3 hours and similarity 0.1 gives 0.2 hours.
C8_DwellAtTestPoints ==
    dwell_time # -1 =>
        /\ dwell_similarity = 75 => dwell_time = HundredthsOfHour(40)
        /\ dwell_similarity = 50 => dwell_time = HundredthsOfHour(30)
        /\ dwell_similarity = 10 => dwell_time = HundredthsOfHour(20)

\* C8. Similarity 0.75 gives 0.4 hours, similarity exactly 0.5 gives 0.25
\* hours (the tier of 0.3 hours starts above 0.5) and similarity 0.1 gives
\* 0.2 hours.
C8_DwellTiers ==
    dwell_time # -1 =>
        /\ dwell_similarity = 75 => dwell_time = HundredthsOfHour(40)
        /\ dwell_similarity = 50 => dwell_time = HundredthsOfHour(25)
        /\ dwell_similarity = 10 => dwell_time = HundredthsOfHour(20)

\* The dwell time of similarity exactly 0.5 has been computed: 0.25 hours.
C8_ExactlyHalf ==
    /\ dwell_similarity = 50
    /\ dwell_time = HundredthsOfHour(25)

\* C17. The dwell time is a step function of the similarity with strict
\* lower bounds: above 0.7 it is 0.4 hours, else above 0.5 it is 0.3, else
\* above 0.3 it is 0.25, else 0.2; so it is one of these four values and no
\* smaller similarity gets a longer dwell time.
C17_DwellStepFunction ==
    dwell_time # -1 =>
        /\ dwell_similarity > 70 => dwell_time = (40 * HundredthsPerHour) \div 100
        /\ (50 < dwell_similarity /\ dwell_similarity <= 70) =>
              dwell_time = (30 * HundredthsPerHour) \div 100
        /\ (30 < dwell_similarity /\ dwell_similarity <= 50) =>
              dwell_time = (25 * HundredthsPerHour) \div 100
        /\ dwell_similarity <= 30 => dwell_time = (20 * HundredthsPerHour) \div 100
        /\ 100 * dwell_time \in {20 * HundredthsPerHour, 25 * HundredthsPerHour,
                                  30 * HundredthsPerHour, 40 * HundredthsPerHour}
        /\ \A s \in SimilarityScores :
              s <= dwell_similarity =>
                  \A kind \in PlaceKinds :
                      calculate_time_for_place(kind, s) <= dwell_time

\* The dwell time of similarity 0.31, just above the lowest boundary: 0.25
\* hours.
C17_JustAboveLowestBoundary ==
    /\ dwell_similarity = 31
    /\ dwell_time = (25 * HundredthsPerHour) \div 100

\* ------------------------------------------- the route time accountant alone

InitTotal ==
    /\ RouteAtRest
    /\ walk_distance = 0
    /\ trainer_walk = -1
    /\ planner_walk = -1
    /\ dwell_similarity = 0
    /\ dwell_time = -1
    /\ total_start \in StartPoints
    /\ \E n \in 0..MaxRouteLen :
          \E rows \in [1..n -> PlaceKinds], queries \in [1..n -> Queries] :
              total_places =
                  [i \in 1..n |->
                      ScoredPlace(load_places_from_excel(rows)[i],
                                  cos_sim(queries[i], rows[i].description),
                                  total_start)]
    /\ total_result = <<>>
    /\ sequence_result = NotSequenced
    /\ ChatAtRest

\* calculate_total_route_time(places, start_coords) on the list given.
TotalRouteTime ==
    /\ total_result = <<>>
    /\ total_result' = calculate_total_route_time(total_places, total_start)
    /\ UNCHANGED <<routeVars, walkVars, dwellVars, chatVars, total_places,
                   total_start, sequence_result>>

\* optimize_route_sequence(places, start_coords) on the list given; the
\* tour is greedy_tsp's, built only for a list of two places or more.
SequenceRoute ==
    /\ ~sequence_result.called
    /\ sequence_result' =
           [called |-> TRUE,
            tour |-> IF Len(total_places) <= 1 THEN <<>>
                     ELSE greedy_tsp(total_places, total_start,
                                     1..Len(total_places), <<0>>, 0),
            places |-> optimize_route_sequence(total_places, total_start)]
    /\ UNCHANGED <<routeVars, walkVars, dwellVars, chatVars, total_places,
                   total_start, total_result>>

NextTotal == TotalRouteTime \/ SequenceRoute

SpecTotal == InitTotal /\ [][NextTotal]_vars

\* C11. For a non-empty list of n places the total route time is the sum of
\* the dwell times plus the walking minutes divided by 60, and the walking
\* minutes are the sum of the clamped walking times of n legs: from the
\* start to the first place and from each place to the next, with no leg
\* back; for the empty list the result is (0, 0, 0).
C11_RouteTimeAccount ==
    total_result # <<>> =>
        LET n == Len(total_places)
            From(i) == IF i = 1 THEN total_start ELSE total_places[i - 1].coords
            Leg(i) == calculate_walking_time(geodesic(From(i), total_places[i].coords))
            RECURSIVE Dwell(_)
            Dwell(i) == IF i = 0 THEN 0 ELSE Dwell(i - 1) + total_places[i].time_required
            RECURSIVE Legs(_)
            Legs(i) == IF i = 0 THEN 0 ELSE Legs(i - 1) + Leg(i)
        IN  /\ n = 0 => total_result = <<0, 0, 0>>
            /\ n > 0 =>
                  /\ total_result[2] = Legs(n)
                  /\ total_result[3] = MinutesToHours(total_result[2])
                  /\ total_result[1] = Dwell(n) + total_result[3]

\* The total of 3 places of which the last is not where the route started:
\* a leg back would have added to it.
C11_ThreeLegs ==
    /\ Len(total_places) = 3
    /\ total_result # <<>>
    /\ total_places[3].coords # total_start
    /\ total_places[1].coords # total_places[2].coords
    /\ total_result[1] > total_result[3]

\* C24. optimize_route_sequence returns a permutation of the list given:
\* the same length and every place as often as the list has it. A list of
\* 0 or 1 places is returned as it is. For a longer list the tour starts
\* at the start node, which it never visits again, picks each of the n
\* places exactly once, so the loop ends after n picks, and the list
\* returned is the places in the order of the tour.
C24_SequencerPermutation ==
    sequence_result.called =>
        LET n == Len(total_places)
            tour == sequence_result.tour
            result == sequence_result.places
            Count(xs, x) == Cardinality({k \in 1..Len(xs) : xs[k] = x})
        IN  /\ Len(result) = n
            /\ \A i \in 1..n :
                   Count(result, total_places[i]) = Count(total_places, total_places[i])
            /\ n <= 1 => result = total_places
            /\ n > 1 =>
                   /\ Len(tour) = n + 1
                   /\ tour[1] = 0
                   /\ \A node \in 1..n :
                          Cardinality({k \in 2..(n + 1) : tour[k] = node}) = 1
                   /\ \A k \in 2..(n + 1) : tour[k] \in 1..n
                   /\ \A k \in 1..n : result[k] = total_places[tour[k + 1]]

\* A list of three places returned with its first place last.
C24_ThreePlacesReordered ==
    /\ sequence_result.called
    /\ Len(total_places) = 3
    /\ sequence_result.places[3] = total_places[1]

\* ------------------------------------------------------------ the chat bot

\* The texts of the messages a user sends, in Latin letters: the /start
\* (or /help) command, the buttons of the keyboards, an address, interests.
StartCommand == "/start"

BeginWorkButton == "Nachalo raboty"

HelpButton == "Pomoshch"

BackButton == "Nazad"

SkipButton == "Propustit"

TimeButtons == {"1-2 chasa", "2-3 chasa", "3-4 chasa", "4+ chasov"}

AddressTexts == {"Bolshaya Pokrovskaya ulitsa, 12"}

\* message.text of a message that is not a text message.
NoText == "<None>"

MessageTexts ==
    {StartCommand, BeginWorkButton, HelpButton, BackButton, SkipButton}
        \cup TimeButtons \cup AddressTexts \cup Queries

\* The texts no handler registered before the two state handlers takes.
FreeTexts ==
    MessageTexts \ {StartCommand, BeginWorkButton, HelpButton, BackButton}

\* handle_user_keypoint's interests for the "skip" button.
DefaultInterests == "dostoprimechatelnosti i interesnye mesta"

\* handle_time_selection's time_mapping.
time_mapping(text) ==
    CASE text = "1-2 chasa" -> <<Hours(1), Hours(2)>>
      [] text = "2-3 chasa" -> <<Hours(2), Hours(3)>>
      [] text = "3-4 chasa" -> <<Hours(3), Hours(4)>>
      [] text = "4+ chasov" -> <<Hours(4), Hours(6)>>

\* What cultural_objects_mnn.xlsx may hold when it is read: nothing usable
\* (a missing or unreadable file, no valid row), or a catalog.
CatalogFiles ==
    { <<>>,
      << [coords |-> 0, description |-> "museum"],
         [coords |-> 14, description |-> "park"] >>,
      << [coords |-> -17, description |-> "museum"],
         [coords |-> 0, description |-> "museum"],
         [coords |-> 14, description |-> "park"],
         [coords |-> -7, description |-> "cafe"] >> }

\* SmartCityGuideTrainer(file).get_trained_model() as user_address_input_state
\* calls it: the dict, or None for the exception it catches. With no place
\* loaded __init__ never sets place_embeddings and get_trained_model raises.
get_trained_model(rows) ==
    LET places_ == load_places_from_excel(rows)
    IN  IF places_ = <<>> THEN None
        ELSE Some([places |-> places_,
                   place_embeddings |-> precompute_place_embeddings(places_)])

\* The outcomes of one load.
LoadOutcomes == {get_trained_model(rows) : rows \in CatalogFiles}

\* What a handler leaves: the session and the message sent last.
start_state(s) ==
    [session |-> [s EXCEPT !.current_state = 0], sent |-> "welcome"]

\* user_address_input_state; `loaded` is what the load gives if it is tried.
user_address_input_state(s, loaded) ==
    LET s1 == [s EXCEPT !.current_state = 1]
    IN  IF s1.trained_model = None
        THEN IF loaded = None
             THEN [session |-> s1, sent |-> "load_error"]
             ELSE [session |-> [s1 EXCEPT !.trained_model = loaded],
                   sent |-> "ask_address"]
        ELSE [session |-> s1, sent |-> "ask_address"]

estimated_time_input_state(s) ==
    [session |-> [s EXCEPT !.current_state = 2], sent |-> "ask_time"]

\* user_keypoint_state, which also registers handle_user_keypoint as the
\* next step.
user_keypoint_state(s) ==
    [session |-> [s EXCEPT !.current_state = 3], sent |-> "ask_interests"]

button_back(s, loaded) ==
    LET s1 == IF s.current_state > 0
              THEN [s EXCEPT !.current_state = s.current_state - 1]
              ELSE s
    IN  CASE s1.current_state = 0 -> start_state(s1)
          [] s1.current_state = 1 -> user_address_input_state(s1, loaded)
          [] s1.current_state = 2 -> estimated_time_input_state(s1)

\* How generate_route_state's try block ends: "error" for an exception
\* (trained_model or start_coords None, a text that cannot be encoded, the
\* KeyError of generate_route_plan), "not_found", or "messages".
RouteOutcome(s) ==
    IF s.trained_model = None \/ s.start_coords = None \/ s.user_interests = NoText
    THEN "error"
    ELSE LET trained_model == s.trained_model[1]
             relevant ==
                 find_optimal_places(trained_model.places,
                                     trained_model.place_embeddings,
                                     s.user_interests, s.min_time, s.max_time,
                                     s.start_coords[1]).best_combination
             status == ComposeOutcome(relevant, trained_model.places,
                                      s.start_coords[1]).status
         IN  CASE status = "not_found" -> "not_found"
               [] status = "KeyError" -> "error"
               [] OTHER -> "messages"

\* generate_route_state: every branch leaves current_state 0, the last
\* message being the welcome of start_state or the offer of a new route.
generate_route_state(s) ==
    IF RouteOutcome(s) = "messages"
    THEN [session |-> [s EXCEPT !.current_state = 0], sent |-> "new_route_offer"]
    ELSE start_state(s)

\* A chat starts with no session kept for it.
InitChat ==
    /\ RouteAtRest
    /\ walk_distance = 0
    /\ trainer_walk = -1
    /\ planner_walk = -1
    /\ dwell_similarity = 0
    /\ dwell_time = -1
    /\ TotalAtRest
    /\ ChatAtRest

\* A message reaches the registered handlers only when no next-step
\* handler is waiting for the chat: /start or /help.
StartState ==
    /\ ~next_step_handlers
    /\ session' = start_state(session).session
    /\ sent' = start_state(session).sent
    /\ UNCHANGED <<next_step_handlers, route_generation>>
    /\ UNCHANGED <<routeVars, walkVars, dwellVars, totalVars>>

\* The "begin work" button.
UserAddressInputState ==
    /\ ~next_step_handlers
    /\ \E loaded \in LoadOutcomes :
          /\ session' = user_address_input_state(session, loaded).session
          /\ sent' = user_address_input_state(session, loaded).sent
    /\ UNCHANGED <<next_step_handlers, route_generation>>
    /\ UNCHANGED <<routeVars, walkVars, dwellVars, totalVars>>

\* The "help" button.
ButtonHelp ==
    /\ ~next_step_handlers
    /\ sent' = "help"
    /\ UNCHANGED <<session, next_step_handlers, route_generation>>
    /\ UNCHANGED <<routeVars, walkVars, dwellVars, totalVars>>

\* The "back" button.
ButtonBack ==
    /\ ~next_step_handlers
    /\ \E loaded \in LoadOutcomes :
          /\ session' = button_back(session, loaded).session
          /\ sent' = button_back(session, loaded).sent
    /\ UNCHANGED <<next_step_handlers, route_generation>>
    /\ UNCHANGED <<routeVars, walkVars, dwellVars, totalVars>>

\* handle_text_address: any other text while current_state is 1;
\* geocode_address_from_text gives coordinates and an address, or None.
HandleTextAddress ==
    /\ ~next_step_handlers
    /\ session.current_state = 1
    /\ \E text \in FreeTexts, loaded \in LoadOutcomes,
          coords \in {None} \cup {Some(c) : c \in StartPoints} :
          LET located == [session EXCEPT !.start_coords = coords,
                                         !.start_location = "address"]
              after == IF coords # None
                       THEN estimated_time_input_state(located)
                       ELSE user_address_input_state(session, loaded)
          IN  /\ session' = after.session
              /\ sent' = after.sent
    /\ UNCHANGED <<next_step_handlers, route_generation>>
    /\ UNCHANGED <<routeVars, walkVars, dwellVars, totalVars>>

\* handle_time_selection: any other text while current_state is 2.
HandleTimeSelection ==
    /\ ~next_step_handlers
    /\ session.current_state = 2
    /\ \E text \in FreeTexts :
          IF text \in TimeButtons
          THEN LET timed == [session EXCEPT !.min_time = time_mapping(text)[1],
                                            !.max_time = time_mapping(text)[2]]
               IN  /\ session' = user_keypoint_state(timed).session
                   /\ sent' = user_keypoint_state(timed).sent
                   /\ next_step_handlers' = TRUE
          ELSE /\ sent' = "choose_time"
               /\ UNCHANGED <<session, next_step_handlers>>
    /\ UNCHANGED route_generation
    /\ UNCHANGED <<routeVars, walkVars, dwellVars, totalVars>>

\* handle_location: a location message while current_state is 1;
\* check_address tells whether the address found for it is in the city.
HandleLocation ==
    /\ ~next_step_handlers
    /\ session.current_state = 1
    /\ \E point \in StartPoints, in_city \in BOOLEAN, loaded \in LoadOutcomes :
          LET located == [session EXCEPT !.start_coords = Some(point),
                                         !.start_location = "address"]
              after == IF in_city
                       THEN estimated_time_input_state(located)
                       ELSE user_address_input_state(session, loaded)
          IN  /\ session' = after.session
              /\ sent' = after.sent
    /\ UNCHANGED <<next_step_handlers, route_generation>>
    /\ UNCHANGED <<routeVars, walkVars, dwellVars, totalVars>>

\* handle_user_keypoint, the next-step handler, takes the next message of
\* the chat whatever it is, and calls generate_route_state.
HandleUserKeypoint ==
    /\ next_step_handlers
    /\ \E text \in MessageTexts \cup {NoText} :
          LET interested ==
                  [session EXCEPT !.user_interests =
                      IF text = SkipButton THEN DefaultInterests ELSE text]
          IN  /\ session' = generate_route_state(interested).session
              /\ sent' = generate_route_state(interested).sent
              /\ route_generation' =
                     [entered |-> TRUE,
                      start_coords |-> interested.start_coords,
                      trained_model |-> interested.trained_model,
                      outcome |-> RouteOutcome(interested)]
    /\ next_step_handlers' = FALSE
    /\ UNCHANGED <<routeVars, walkVars, dwellVars, totalVars>>

NextChat ==
    \/ StartState
    \/ UserAddressInputState
    \/ ButtonHelp
    \/ ButtonBack
    \/ HandleTextAddress
    \/ HandleTimeSelection
    \/ HandleLocation
    \/ HandleUserKeypoint

SpecChat == InitChat /\ [][NextChat]_vars

\* C25. generate_route_state is entered only in a session whose
\* start_coords is set and whose trained_model was loaded: after a load
\* that failed no route is generated before a load succeeds; and a session
\* with current_state 2 or 3 has its start_coords set.
C25_SessionPreconditions ==
    /\ route_generation.entered =>
          /\ route_generation.start_coords # None
          /\ route_generation.trained_model # None
    /\ session.current_state >= 2 => session.start_coords # None

====
